---------------------------- MODULE Spec2Model ----------------------------
(***************************************************************************)
(* Model of the UAVTalk bridge: the dispatch hub of dispatcher.go          *)
(* (connections, the dynamic select over their outbound channels, the      *)
(* routing of Update / Subscription / Definition / Request) and the frame  *)
(* scanner and read loop of uavtalk.go.                                    *)
(***************************************************************************)
EXTENDS Integers, Sequences, FiniteSets, TLC

(***************************************************************************)
(* Bounds of the model.                                                    *)
(***************************************************************************)
\* number of Connection objects created with NewConnection
NConn == 3
\* number of distinct objectIDs used in dispatch messages
NObj == 2
\* total number of messages the peers put on their outbound channels
MaxMsgs == 3
\* capacity of InChan and OutChan (ChanQueueLength, 100 in dispatcher.go:11,
\* scaled down so that a full channel is reached)
ChanQueueLength == 1

\* capacity of InChan and OutChan where the order of queued messages is
\* looked at
OrderQueueLength == 2

\* capacity of dispatcher.connectionChan
ConnectionChanCap == 10

Conns == 1..NConn
Objs == 1..NObj
Kinds == {"Update", "Subscription", "Definition", "Request"}

\* The definitions loaded from the xml directory at Start, by objectID:
\* object 1 is single-instance with 12 bytes of fields (as HomeLocation),
\* object 3 is not
\* single-instance and has 1 byte of fields; no other objectID is loaded.
LoadedObjectIDs == <<1, 3>>
SingleInstance(objectID) == objectID = 1
FieldsByteLength(objectID) == IF objectID = 1 THEN 12 ELSE 1

\* len(buffer) of the read goroutine (maxHIDFrameSize, 64 in uavtalk.go:109,
\* scaled down)
maxHIDFrameSize == 4
\* cap(packet) of the read goroutine at its start (4096 in uavtalk.go:296,
\* scaled down)
PacketCap == 8
\* number of pieces (frames, garbage bytes) an input stream is made of
MaxPieces == 3
\* number of reads of a run that return fewer bytes than are left and asked
MaxShortReads == 1

\* the instanceIDs given to newPacket
InstanceIDs == {0, 1, 513}
\* the field values given to newPacket, one per byte of the definition's fields
Payloads(objectID) ==
    {[k \in 1..FieldsByteLength(objectID) |-> 0],
     [k \in 1..FieldsByteLength(objectID) |-> 59 + k]}
\* number of Packets put on sh.inChan
MaxWrites == 2

syncByte == 60
versionMask == 32
shortHeaderLength == 8
objectCmd == 0
objectRequest == 1
objectCmdWithAck == 2
objectAck == 3
objectNack == 4

VARIABLES
    connections,     \* dispatcher.connections: the registered connections, in order
    cases,           \* dispatcher.cases: 0 is connectionChan, c is the OutChan of c
    connectionChan,  \* dispatcher.connectionChan
    subscriptions,   \* connection.subscriptions, a list of objectIDs
    connDefinitions, \* connection.definitions, a list of objectIDs
    InChan,          \* connection.InChan
    OutChan,         \* connection.OutChan
    closed,          \* OutChan has been closed
    added,           \* AddConnection has been called for the connection
    definitions,     \* the package variable definitions of uavtalkconnection
    hubPend,         \* the sends on InChan the hub loop has still to do
    cur,             \* the event processChannels is handling (or handled last)
    sent,            \* copies of cur.msg put on each InChan by this processChannels
    budget,          \* number of messages the peers will still put on their OutChan
    chanCap          \* cap(connection.InChan) and cap(connection.OutChan)

hubVars == <<connections, cases, connectionChan, subscriptions, connDefinitions,
             InChan, OutChan, closed, added, definitions, hubPend, cur, sent,
             budget, chanCap>>

VARIABLES
    stream,          \* the bytes link.Read has still to return
    input,           \* all the bytes of the link, read or not
    buffer,          \* buffer, the maxHIDFrameSize bytes link.Read fills
    packetArr,       \* the array behind the slice packet (cap(packet) bytes)
    packetLen,       \* len(packet)
    pc,              \* where the read goroutine is: read, scan, panic, fatal
    outChan,         \* the Packets sent on sh.outChan, in order
    lastScan,        \* what the last call of packetComplete returned
    shortReads,      \* number of reads that returned fewer bytes than asked
    inChan,          \* the Packets on sh.inChan, to be linkWrites on the link
    linkWrites          \* the byte slices given to link.Write, in order

linkVars == <<stream, input, buffer, packetArr, packetLen, pc, outChan, lastScan,
              shortReads, inChan, linkWrites>>

vars == <<hubVars, linkVars>>

\* the process has not ended (log.Fatal, a panic of a goroutine)
Running == pc \notin {"fatal", "panic"}

NoMsg == [kind |-> "None", obj |-> 0, src |-> 0]
Zero == [c \in Conns |-> 0]

(***************************************************************************)
(* Helpers on Go slices (0-based indexes).                                 *)
(***************************************************************************)
Min(a, b) == IF a < b THEN a ELSE b

\* copy(s[d:], s[f:]) on one slice: min(len-d, len-f) elements move
Copy(s, d, f) ==
    LET n == Min(Len(s) - d, Len(s) - f)
    IN [k \in 1..Len(s) |->
           IF k - 1 >= d /\ k - 1 < d + n THEN s[k - d + f] ELSE s[k]]

Range(s) == {s[k] : k \in 1..Len(s)}

\* s[:len(s)-1]
DropLast(s) == SubSeq(s, 1, Len(s) - 1)

(***************************************************************************)
(* common.Definitions.GetDefinitionForObjectID: err != nil exactly when no *)
(* definition of the list has the objectID.                                *)
(***************************************************************************)
GetDefinitionForObjectIDErr(defs, objectID) ==
    ~ \E k \in 1..Len(defs) : defs[k] = objectID

(***************************************************************************)
(* Dispatcher.addConnection                                                *)
(***************************************************************************)
addConnectionConnections(conns, c) == Append(conns, c)
\* addConnection without the append to cases
addConnectionCases_None(cs, c) == cs
addConnectionCases(cs, c) == Append(cs, c)

(***************************************************************************)
(* Dispatcher.removeConnectionAt(index): the two parallel slices           *)
(***************************************************************************)
\* removeConnectionAt without the copy that closes the gap: the last
\* connection is dropped, whatever the index
removeConnectionAtConnections_NoCopy(conns, index) == DropLast(conns)

removeConnectionAtConnections(conns, index) ==
    LET moved == IF index < Len(conns) THEN Copy(conns, index, index + 1) ELSE conns
    IN DropLast(moved)

\* removeConnectionAt moving the cases from index instead of index+1
removeConnectionAtCases_SameIndex(cs, conns, index) ==
    LET moved == IF index < Len(conns) THEN Copy(cs, index, index + 1) ELSE cs
    IN DropLast(moved)

removeConnectionAtCases(cs, conns, index) ==
    LET moved == IF index < Len(conns) THEN Copy(cs, index + 1, index + 2) ELSE cs
    IN DropLast(moved)

(***************************************************************************)
(* Dispatcher.dispatchUpdate: the connections, in order, that get a copy.  *)
(* subscribed(c, o) is the inner loop over connection.subscriptions.       *)
(***************************************************************************)
subscribed(subs, objectID) == \E k \in 1..Len(subs) : subs[k] = objectID

RECURSIVE dispatchUpdateFrom(_, _, _, _, _)
dispatchUpdateFrom(i, conns, subs, from, objectID) ==
    IF i >= Len(conns) THEN <<>>
    ELSE IF i = from THEN dispatchUpdateFrom(i + 1, conns, subs, from, objectID)
    ELSE IF ~subscribed(subs[conns[i + 1]], objectID)
         THEN dispatchUpdateFrom(i + 1, conns, subs, from, objectID)
    ELSE <<conns[i + 1]>> \o dispatchUpdateFrom(i + 1, conns, subs, from, objectID)

\* dispatchUpdate without the "if i == from { continue }"
dispatchUpdate_NoSkip(conns, subs, from, objectID) ==
    dispatchUpdateFrom(0, conns, subs, Len(conns), objectID)

\* dispatchUpdate with the send moved into the loop over the subscriptions
RECURSIVE dispatchUpdatePerEntryFrom(_, _, _, _, _)
dispatchUpdatePerEntryFrom(i, conns, subs, from, objectID) ==
    IF i >= Len(conns) THEN <<>>
    ELSE IF i = from THEN dispatchUpdatePerEntryFrom(i + 1, conns, subs, from, objectID)
    ELSE SelectSeq([k \in 1..Len(subs[conns[i + 1]]) |->
                      IF subs[conns[i + 1]][k] = objectID THEN conns[i + 1] ELSE 0],
                   LAMBDA x : x # 0)
         \o dispatchUpdatePerEntryFrom(i + 1, conns, subs, from, objectID)

dispatchUpdate_PerEntry(conns, subs, from, objectID) ==
    dispatchUpdatePerEntryFrom(0, conns, subs, from, objectID)

dispatchUpdate(conns, subs, from, objectID) ==
    dispatchUpdateFrom(0, conns, subs, from, objectID)

(***************************************************************************)
(* Dispatcher.dispatchDefinition                                           *)
(***************************************************************************)
RECURSIVE dispatchDefinitionFrom(_, _, _)
dispatchDefinitionFrom(i, conns, from) ==
    IF i >= Len(conns) THEN <<>>
    ELSE IF i = from THEN dispatchDefinitionFrom(i + 1, conns, from)
    ELSE <<conns[i + 1]>> \o dispatchDefinitionFrom(i + 1, conns, from)

\* dispatchDefinition without the "if i == from { continue }"
dispatchDefinition_NoSkip(conns, from) == dispatchDefinitionFrom(0, conns, Len(conns))

dispatchDefinition(conns, from) == dispatchDefinitionFrom(0, conns, from)

(***************************************************************************)
(* Dispatcher.dispatchRequest: the first connection for which the lookup   *)
(* returns err != nil gets the request, and the loop returns.              *)
(***************************************************************************)
RECURSIVE dispatchRequestFrom(_, _, _, _)
dispatchRequestFrom(i, conns, defs, objectID) ==
    IF i >= Len(conns) THEN <<>>
    ELSE IF GetDefinitionForObjectIDErr(defs[conns[i + 1]], objectID)
         THEN <<conns[i + 1]>>
    ELSE dispatchRequestFrom(i + 1, conns, defs, objectID)

dispatchRequest(conns, defs, objectID) == dispatchRequestFrom(0, conns, defs, objectID)

(***************************************************************************)
(* Initial state: NewDispatcher, NewConnection for every connection, the   *)
(* definitions loaded by uavtalkconnection.Start.                          *)
(***************************************************************************)
HubInit ==
    /\ connections = <<>>
    /\ cases = <<0>>
    /\ connectionChan = <<>>
    /\ subscriptions = [c \in Conns |-> <<>>]
    /\ connDefinitions = [c \in Conns |-> <<>>]
    /\ InChan = [c \in Conns |-> <<>>]
    /\ OutChan = [c \in Conns |-> <<>>]
    /\ closed = [c \in Conns |-> FALSE]
    /\ added = [c \in Conns |-> FALSE]
    /\ definitions = LoadedObjectIDs
    /\ hubPend = <<>>
    /\ cur = [kind |-> "None", from |-> 0, msg |-> NoMsg]
    /\ sent = Zero
    /\ budget = MaxMsgs
    /\ chanCap = ChanQueueLength

(***************************************************************************)
(* The peers.                                                              *)
(***************************************************************************)
\* Dispatcher.AddConnection
AddConnection(c) ==
    /\ Running
    /\ UNCHANGED chanCap
    /\ ~added[c]
    /\ \A d \in Conns : d < c => added[d]
    /\ Len(connectionChan) < ConnectionChanCap
    /\ connectionChan' = Append(connectionChan, c)
    /\ added' = [added EXCEPT ![c] = TRUE]
    /\ UNCHANGED <<connections, cases, subscriptions, connDefinitions, InChan,
                   OutChan, closed, definitions, hubPend, cur, sent, budget>>
    /\ UNCHANGED linkVars

\* connection.OutChan <- message
Send(c, k, o) ==
    /\ Running
    /\ UNCHANGED chanCap
    /\ added[c]
    /\ ~closed[c]
    /\ budget > 0
    /\ Len(OutChan[c]) < chanCap
    /\ OutChan' = [OutChan EXCEPT ![c] =
                     Append(@, [kind |-> k, obj |-> o, src |-> c])]
    /\ budget' = budget - 1
    /\ UNCHANGED <<connections, cases, connectionChan, subscriptions,
                   connDefinitions, InChan, closed, added, definitions, hubPend,
                   cur, sent>>
    /\ UNCHANGED linkVars

\* Connection.Close
Close(c) ==
    /\ Running
    /\ UNCHANGED chanCap
    /\ added[c]
    /\ ~closed[c]
    /\ closed' = [closed EXCEPT ![c] = TRUE]
    /\ UNCHANGED <<connections, cases, connectionChan, subscriptions,
                   connDefinitions, InChan, OutChan, added, definitions, hubPend,
                   cur, sent, budget>>
    /\ UNCHANGED linkVars

\* <-connection.InChan
Recv(c) ==
    /\ Running
    /\ UNCHANGED chanCap
    /\ InChan[c] # <<>>
    /\ InChan' = [InChan EXCEPT ![c] = Tail(@)]
    /\ UNCHANGED <<connections, cases, connectionChan, subscriptions,
                   connDefinitions, OutChan, closed, added, definitions, hubPend,
                   cur, sent, budget>>
    /\ UNCHANGED linkVars

(***************************************************************************)
(* Dispatcher.processChannels.  reflect.Select picks case i (1-based       *)
(* position in cases, chosen = i - 1) among the ready ones.  The sends on  *)
(* InChan that the dispatch functions do are left in hubPend and done one  *)
(* by one by HubDeliver, each blocking while the channel is full.          *)
(***************************************************************************)
\* case *Connection
HubJoin ==
    /\ Running
    /\ UNCHANGED chanCap
    /\ hubPend = <<>>
    /\ cases[1] = 0
    /\ connectionChan # <<>>
    /\ connections' = addConnectionConnections(connections, Head(connectionChan))
    /\ cases' = addConnectionCases(cases, Head(connectionChan))
    /\ connectionChan' = Tail(connectionChan)
    /\ cur' = [kind |-> "Join", from |-> Head(connectionChan), msg |-> NoMsg]
    /\ sent' = Zero
    /\ UNCHANGED <<subscriptions, connDefinitions, InChan, OutChan, closed, added,
                   definitions, hubPend, budget>>
    /\ UNCHANGED linkVars

\* a closed channel reported closed while it still holds values
HubClosed_Eager(i) ==
    /\ Running
    /\ UNCHANGED chanCap
    /\ hubPend = <<>>
    /\ i \in 2..Len(cases)
    /\ closed[cases[i]]
    /\ connections' = removeConnectionAtConnections(connections, i - 2)
    /\ cases' = removeConnectionAtCases(cases, connections, i - 2)
    /\ cur' = [kind |-> "Closed", from |-> cases[i], msg |-> NoMsg]
    /\ sent' = Zero
    /\ UNCHANGED <<connectionChan, subscriptions, connDefinitions, InChan, OutChan,
                   closed, added, definitions, hubPend, budget>>
    /\ UNCHANGED linkVars

\* !ok: the channel is closed and empty
HubClosed(i) ==
    /\ Running
    /\ UNCHANGED chanCap
    /\ hubPend = <<>>
    /\ i \in 2..Len(cases)
    /\ OutChan[cases[i]] = <<>>
    /\ closed[cases[i]]
    /\ connections' = removeConnectionAtConnections(connections, i - 2)
    /\ cases' = removeConnectionAtCases(cases, connections, i - 2)
    /\ cur' = [kind |-> "Closed", from |-> cases[i], msg |-> NoMsg]
    /\ sent' = Zero
    /\ UNCHANGED <<connectionChan, subscriptions, connDefinitions, InChan, OutChan,
                   closed, added, definitions, hubPend, budget>>
    /\ UNCHANGED linkVars

\* the receive of processChannels taking the newest value of the channel
HubReceive_Last(i, k) ==
    /\ Running
    /\ UNCHANGED chanCap
    /\ hubPend = <<>>
    /\ i \in 2..Len(cases)
    /\ OutChan[cases[i]] # <<>>
    /\ OutChan[cases[i]][Len(OutChan[cases[i]])].kind = k
    /\ OutChan' = [OutChan EXCEPT ![cases[i]] = DropLast(@)]
    /\ cur' = [kind |-> k, from |-> cases[i],
               msg |-> OutChan[cases[i]][Len(OutChan[cases[i]])]]
    /\ sent' = Zero

\* a value is received from the OutChan of case i
HubReceive(i, k) ==
    /\ Running
    /\ UNCHANGED chanCap
    /\ hubPend = <<>>
    /\ i \in 2..Len(cases)
    /\ OutChan[cases[i]] # <<>>
    /\ Head(OutChan[cases[i]]).kind = k
    /\ OutChan' = [OutChan EXCEPT ![cases[i]] = Tail(@)]
    /\ cur' = [kind |-> k, from |-> cases[i], msg |-> Head(OutChan[cases[i]])]
    /\ sent' = Zero

\* case Update
HubUpdate(i) ==
    /\ HubReceive(i, "Update")
    /\ hubPend' = dispatchUpdate(connections, subscriptions, i - 2,
                                 Head(OutChan[cases[i]]).obj)
    /\ UNCHANGED <<connections, cases, connectionChan, subscriptions,
                   connDefinitions, InChan, closed, added, definitions, budget>>
    /\ UNCHANGED linkVars

\* case Subscription
HubSubscription(i) ==
    /\ HubReceive(i, "Subscription")
    /\ subscriptions' = [subscriptions EXCEPT ![connections[i - 1]] =
                            Append(@, Head(OutChan[cases[i]]).obj)]
    /\ UNCHANGED <<connections, cases, connectionChan, connDefinitions, InChan,
                   closed, added, definitions, hubPend, budget>>
    /\ UNCHANGED linkVars

\* case common.Definition
HubDefinition(i) ==
    /\ HubReceive(i, "Definition")
    /\ connDefinitions' = [connDefinitions EXCEPT ![connections[i - 1]] =
                              Append(@, Head(OutChan[cases[i]]).obj)]
    /\ hubPend' = dispatchDefinition(connections, i - 2)
    /\ UNCHANGED <<connections, cases, connectionChan, subscriptions, InChan,
                   closed, added, definitions, budget>>
    /\ UNCHANGED linkVars

\* case Request
HubRequest(i) ==
    /\ HubReceive(i, "Request")
    /\ hubPend' = dispatchRequest(connections, connDefinitions,
                                  Head(OutChan[cases[i]]).obj)
    /\ UNCHANGED <<connections, cases, connectionChan, subscriptions,
                   connDefinitions, InChan, closed, added, definitions, budget>>
    /\ UNCHANGED linkVars

\* a send that gives the message up when the channel is full
HubDeliver_Drop ==
    /\ Running
    /\ UNCHANGED chanCap
    /\ hubPend # <<>>
    /\ IF Len(InChan[Head(hubPend)]) < chanCap
       THEN /\ InChan' = [InChan EXCEPT ![Head(hubPend)] = Append(@, cur.msg)]
            /\ sent' = [sent EXCEPT ![Head(hubPend)] = @ + 1]
       ELSE UNCHANGED <<InChan, sent>>
    /\ hubPend' = Tail(hubPend)
    /\ UNCHANGED <<connections, cases, connectionChan, subscriptions,
                   connDefinitions, OutChan, closed, added, definitions, cur, budget>>
    /\ UNCHANGED linkVars

\* connection.InChan <- message, of dispatchUpdate / Definition / Request
HubDeliver ==
    /\ Running
    /\ UNCHANGED chanCap
    /\ hubPend # <<>>
    /\ Len(InChan[Head(hubPend)]) < chanCap
    /\ InChan' = [InChan EXCEPT ![Head(hubPend)] = Append(@, cur.msg)]
    /\ sent' = [sent EXCEPT ![Head(hubPend)] = @ + 1]
    /\ hubPend' = Tail(hubPend)
    /\ UNCHANGED <<connections, cases, connectionChan, subscriptions,
                   connDefinitions, OutChan, closed, added, definitions, cur, budget>>
    /\ UNCHANGED linkVars

(***************************************************************************)
(* Bytes, slices and the checksum.                                         *)
(***************************************************************************)
RECURSIVE XorBits(_, _, _)
XorBits(a, b, n) ==
    IF n = 0 THEN 0
    ELSE ((a + b) % 2) + 2 * XorBits(a \div 2, b \div 2, n - 1)

\* a ^ b on uint8
Xor8(a, b) == XorBits(a, b, 8)

\* a | b on uint8
RECURSIVE OrBits(_, _, _)
OrBits(a, b, n) ==
    IF n = 0 THEN 0
    ELSE (IF a % 2 = 1 \/ b % 2 = 1 THEN 1 ELSE 0)
         + 2 * OrBits(a \div 2, b \div 2, n - 1)

Or8(a, b) == OrBits(a, b, 8)

\* s[lo:hi] of a Go slice whose array is s
Slice(s, lo, hi) == SubSeq(s, lo + 1, hi)

\* computeCrc8: the 8-bit CRC of UAVTalk (polynomial x^8 + x^2 + x + 1),
\* byte by byte through its table
Crc8Shift(x) == IF x >= 128 THEN Xor8((2 * x) % 256, 7) ELSE 2 * x

Crc8Table ==
    [x \in 0..255 |->
        Crc8Shift(Crc8Shift(Crc8Shift(Crc8Shift(
        Crc8Shift(Crc8Shift(Crc8Shift(Crc8Shift(x))))))))]

RECURSIVE computeCrc8(_, _)
computeCrc8(crc, s) ==
    IF s = <<>> THEN crc
    ELSE computeCrc8(Crc8Table[Xor8(crc, Head(s))], Tail(s))

byteArrayToInt16(b) == b[2] * 256 + b[1]
byteArrayToInt32(b) == b[4] * 16777216 + b[3] * 65536 + b[2] * 256 + b[1]

\* binary.Write, little endian
Int16Bytes(v) == <<v % 256, (v \div 256) % 256>>
Int32Bytes(v) ==
    <<v % 256, (v \div 256) % 256, (v \div 65536) % 256, (v \div 16777216) % 256>>

(***************************************************************************)
(* The codec of the payload (package-level mapToUAVTalk, uAVTalkToMap):    *)
(* every field is one uint8; decoding fails on fewer bytes than the        *)
(* definition's fields take.                                               *)
(***************************************************************************)
mapToUAVTalk(objectID, data) ==
    [k \in 1..FieldsByteLength(objectID) |-> data[k] % 256]

uAVTalkToMapErr(objectID, binaryData) ==
    Len(binaryData) < FieldsByteLength(objectID)

uAVTalkToMap(objectID, binaryData) ==
    SubSeq(binaryData, 1, FieldsByteLength(objectID))

(***************************************************************************)
(* newPacket and Packet.toBinary                                           *)
(***************************************************************************)
newPacket(objectID, cmd, instanceID, data) ==
    LET fieldsLength ==
            IF cmd = objectCmd \/ cmd = objectCmdWithAck
            THEN FieldsByteLength(objectID) ELSE 0
    IN [definition |-> objectID,
        cmd |-> cmd,
        length |-> IF ~SingleInstance(objectID)
                   THEN (shortHeaderLength + fieldsLength + 2) % 65536
                   ELSE (shortHeaderLength + fieldsLength) % 65536,
        instanceID |-> instanceID,
        data |-> data]

\* toBinary without the instanceID
toBinary_NoInstanceID(packet) ==
    LET w == <<syncByte, Or8(packet.cmd, versionMask)>>
             \o Int16Bytes(packet.length)
             \o Int32Bytes(packet.definition)
             \o (IF packet.cmd = objectCmd \/ packet.cmd = objectCmdWithAck
                 THEN mapToUAVTalk(packet.definition, packet.data) ELSE <<>>)
    IN Append(w, computeCrc8(0, w))

toBinary(packet) ==
    LET written ==
            <<syncByte, Or8(packet.cmd, versionMask)>>
            \o Int16Bytes(packet.length)
            \o Int32Bytes(packet.definition)
            \o (IF ~SingleInstance(packet.definition)
                THEN Int16Bytes(packet.instanceID) ELSE <<>>)
            \o (IF packet.cmd = objectCmd \/ packet.cmd = objectCmdWithAck
                THEN mapToUAVTalk(packet.definition, packet.data) ELSE <<>>)
    IN Append(written, computeCrc8(0, written))

(***************************************************************************)
(* packetComplete(packet): packet is the first len bytes of arr.  The      *)
(* slice expression packet[offset+2 : offset+4] is checked against         *)
(* cap(packet), so it reads the array beyond len(packet) and panics only   *)
(* beyond the capacity.                                                    *)
(***************************************************************************)
ScanResult(k, from, to) == [kind |-> k, from |-> from, to |-> to]

\* packetComplete that never compares the checksum
packetComplete_NoChecksum(arr, len) ==
    LET syncs == {i \in 0..(len - 1) : arr[i + 1] = syncByte}
    IN IF syncs = {} THEN ScanResult("Incomplete", 0, 0)
       ELSE LET offset == CHOOSE i \in syncs : \A j \in syncs : i <= j
            IN IF offset + 4 > Len(arr) THEN ScanResult("Panic", 0, 0)
               ELSE LET length == byteArrayToInt16(Slice(arr, offset + 2, offset + 4))
                    IN IF length + 1 > len - offset
                       THEN ScanResult("Incomplete", 0, 0)
                       ELSE ScanResult("Complete", offset, offset + length + 1)

packetComplete(arr, len) ==
    LET syncs == {i \in 0..(len - 1) : arr[i + 1] = syncByte}
    IN IF syncs = {} THEN ScanResult("Incomplete", 0, 0)
       ELSE LET offset == CHOOSE i \in syncs : \A j \in syncs : i <= j
            IN IF offset + 4 > Len(arr) THEN ScanResult("Panic", 0, 0)
               ELSE LET length == byteArrayToInt16(Slice(arr, offset + 2, offset + 4))
                    IN IF length + 1 > len - offset
                       THEN ScanResult("Incomplete", 0, 0)
                       ELSE IF arr[offset + length + 1]
                               # computeCrc8(0, Slice(arr, offset, offset + length))
                       THEN ScanResult("Invalid", offset, offset + length + 1)
                       ELSE ScanResult("Complete", offset, offset + length + 1)

(***************************************************************************)
(* newPacketFromBinary(packet[from:to]): res is "ok", "err" (unknown       *)
(* objectID, payload too short) or "panic" (a slice expression out of      *)
(* range).                                                                 *)
(***************************************************************************)
NoPacket == [definition |-> 0, cmd |-> 0, length |-> 0, instanceID |-> 0,
             data |-> <<>>]
Decoded(res, packet) == [res |-> res, packet |-> packet]

\* newPacketFromBinary that keeps the version tag in cmd
newPacketFromBinary_NoMask(arr, from, to) ==
    IF from + 8 > Len(arr) THEN Decoded("panic", NoPacket)
    ELSE LET objectID == byteArrayToInt32(Slice(arr, from + 4, from + 8))
         IN IF GetDefinitionForObjectIDErr(definitions, objectID)
            THEN Decoded("err", NoPacket)
            ELSE Decoded("ok",
                     [definition |-> objectID, cmd |-> arr[from + 2],
                      length |-> byteArrayToInt16(Slice(arr, from + 2, from + 4)),
                      instanceID |-> 0, data |-> <<>>])

\* newPacketFromBinary that does not look the objectID up
newPacketFromBinary_NoLookup(arr, from, to) ==
    IF from + 8 > Len(arr) THEN Decoded("panic", NoPacket)
    ELSE Decoded("ok",
             [definition |-> byteArrayToInt32(Slice(arr, from + 4, from + 8)),
              cmd |-> Xor8(arr[from + 2], versionMask),
              length |-> byteArrayToInt16(Slice(arr, from + 2, from + 4)),
              instanceID |-> 0, data |-> <<>>])

newPacketFromBinary(arr, from, to) ==
    LET cmd == Xor8(arr[from + 2], versionMask)
        length == byteArrayToInt16(Slice(arr, from + 2, from + 4))
    IN IF from + 8 > Len(arr) THEN Decoded("panic", NoPacket)
       ELSE LET objectID == byteArrayToInt32(Slice(arr, from + 4, from + 8))
                single == SingleInstance(objectID)
                headerSize == IF single THEN shortHeaderLength
                              ELSE shortHeaderLength + 2
            IN IF GetDefinitionForObjectIDErr(definitions, objectID)
               THEN Decoded("err", NoPacket)
               ELSE IF ~single /\ from + 10 > Len(arr)
               THEN Decoded("panic", NoPacket)
               ELSE IF headerSize > (to - from) - 1
               THEN Decoded("panic", NoPacket)
               ELSE LET instanceID ==
                            IF single THEN 0
                            ELSE byteArrayToInt16(Slice(arr, from + 8, from + 10))
                        binaryData == Slice(arr, from + headerSize, to - 1)
                    IN IF cmd = objectCmd \/ cmd = objectCmdWithAck
                       THEN IF uAVTalkToMapErr(objectID, binaryData)
                            THEN Decoded("err", NoPacket)
                            ELSE Decoded("ok",
                                     [definition |-> objectID, cmd |-> cmd,
                                      length |-> length, instanceID |-> instanceID,
                                      data |-> uAVTalkToMap(objectID, binaryData)])
                       ELSE Decoded("ok",
                                [definition |-> objectID, cmd |-> cmd,
                                 length |-> length, instanceID |-> instanceID,
                                 data |-> <<>>])

(***************************************************************************)
(* The slice packet of the read goroutine: append and the discard          *)
(***************************************************************************)
Sliced(arr, len) == [arr |-> arr, len |-> len]

\* the capacity append gives the new array (runtime.growslice, small slices)
growCap(old, needed) == IF needed > 2 * old THEN needed ELSE 2 * old

\* packet = append(packet[:0], buffer...): the read replaces the packet
appendBuffer_Replace(arr, len, buf) ==
    Sliced([k \in 1..Len(arr) |-> IF k <= Len(buf) THEN buf[k] ELSE arr[k]],
           Len(buf))

\* packet = append(packet, buffer...)
appendBuffer(arr, len, buf) ==
    LET needed == len + Len(buf)
        cap == IF needed <= Len(arr) THEN Len(arr) ELSE growCap(Len(arr), needed)
    IN Sliced([k \in 1..cap |->
                  IF k <= len THEN arr[k]
                  ELSE IF k <= needed THEN buf[k - len]
                  ELSE IF needed <= Len(arr) THEN arr[k]
                  ELSE 0],
              needed)

\* copy(packet, packet[to:]); packet = packet[0 : len(packet)-to]
discardTo(arr, len, to) ==
    Sliced([k \in 1..Len(arr) |-> IF k <= len - to THEN arr[k + to] ELSE arr[k]],
           len - to)

\* the bytes of the slice packet
Packet == SubSeq(packetArr, 1, packetLen)

(***************************************************************************)
(* The input of the link: frames and garbage.                              *)
(***************************************************************************)
\* a Request for the single-instance object 1
ValidFrame == toBinary(newPacket(1, objectRequest, 0, <<>>))
\* a Request for object 2, which no loaded definition describes
UnknownFrame == toBinary(newPacket(2, objectRequest, 0, <<>>))
\* a checksum-valid frame for object 3 that has the length of a
\* single-instance frame, without the instanceID
ShortFrame ==
    LET written == <<syncByte, Or8(objectRequest, versionMask)>>
                   \o Int16Bytes(shortHeaderLength) \o Int32Bytes(3)
    IN Append(written, computeCrc8(0, written))
\* the Packets newPacket builds over the loaded definitions
BuiltPackets ==
    UNION {{newPacket(o, c, i, d) : c \in objectCmd..objectNack,
                                    i \in InstanceIDs, d \in Payloads(o)} :
               o \in Range(LoadedObjectIDs)}
\* the frames of these Packets
BuiltFrames == {toBinary(p) : p \in BuiltPackets}
\* a checksum-valid Request for object 1 whose cmd byte has no version tag
UntaggedFrame ==
    LET written == <<syncByte, objectRequest>>
                   \o Int16Bytes(shortHeaderLength) \o Int32Bytes(1)
    IN Append(written, computeCrc8(0, written))
\* zero bytes, one fewer than the capacity of packet
IdleBytes == [k \in 1..(PacketCap - 1) |-> 0]

Pieces == {ValidFrame, UnknownFrame, ShortFrame, IdleBytes, <<0>>, <<syncByte>>}

RECURSIVE Concat(_)
Concat(ss) == IF ss = <<>> THEN <<>> ELSE Head(ss) \o Concat(Tail(ss))

PieceStreams ==
    {Concat(ps) : ps \in UNION {[1..n -> Pieces] : n \in 0..MaxPieces}}

\* the values a corrupted byte takes
CorruptValues == {0, 12, syncByte, 255}

Corrupt(frame, k, v) == [frame EXCEPT ![k] = v]

\* one corrupt frame (one byte of ValidFrame altered) immediately followed
\* by one well-formed frame
CorruptThenValidStreams ==
    UNION {{Corrupt(ValidFrame, k, v) \o ValidFrame :
                v \in CorruptValues \ {ValidFrame[k]}} : k \in 1..Len(ValidFrame)}

Streams ==
    PieceStreams \cup CorruptThenValidStreams \cup BuiltFrames \cup {UntaggedFrame}

(***************************************************************************)
(* The read goroutine of Start ("From USB").                               *)
(***************************************************************************)
NoScan == ScanResult("None", 0, 0)

LinkIdleInit ==
    /\ stream = <<>>
    /\ input = <<>>
    /\ buffer = [k \in 1..maxHIDFrameSize |-> 0]
    /\ packetArr = [k \in 1..PacketCap |-> 0]
    /\ packetLen = 0
    /\ pc = "read"
    /\ outChan = <<>>
    /\ lastScan = NoScan
    /\ shortReads = 0
    /\ inChan = <<>>
    /\ linkWrites = <<>>

LinkInit ==
    /\ stream \in Streams
    /\ input = stream
    /\ buffer = [k \in 1..maxHIDFrameSize |-> 0]
    /\ packetArr = [k \in 1..PacketCap |-> 0]
    /\ packetLen = 0
    /\ pc = "read"
    /\ outChan = <<>>
    /\ lastScan = NoScan
    /\ shortReads = 0
    /\ inChan = <<>>
    /\ linkWrites = <<>>

\* n, err := link.Read(buffer) with n > 0; packet = append(packet, buffer...)
LinkRead(n) ==
    /\ pc = "read"
    /\ n \in 1..Min(maxHIDFrameSize, Len(stream))
    /\ (n < maxHIDFrameSize /\ n < Len(stream)) => shortReads < MaxShortReads
    /\ LET filled == [k \in 1..maxHIDFrameSize |->
                         IF k <= n THEN stream[k] ELSE buffer[k]]
           grown == appendBuffer(packetArr, packetLen, filled)
       IN /\ buffer' = filled
          /\ packetArr' = grown.arr
          /\ packetLen' = grown.len
    /\ stream' = SubSeq(stream, n + 1, Len(stream))
    /\ shortReads' = IF n < maxHIDFrameSize /\ n < Len(stream)
                     THEN shortReads + 1 ELSE shortReads
    /\ pc' = "scan"
    /\ UNCHANGED <<input, outChan, lastScan>>
    /\ UNCHANGED <<inChan, linkWrites>>
    /\ UNCHANGED hubVars

\* link.Read returns an error: log.Fatal
LinkReadError ==
    /\ pc = "read"
    /\ pc' = "fatal"
    /\ UNCHANGED <<stream, input, buffer, packetArr, packetLen, outChan, lastScan,
                   shortReads>>
    /\ UNCHANGED <<inChan, linkWrites>>
    /\ UNCHANGED hubVars

\* one turn of the inner loop: packetComplete says that no frame is complete
ScanIncomplete ==
    /\ pc = "scan"
    /\ packetComplete(packetArr, packetLen).kind = "Incomplete"
    /\ lastScan' = packetComplete(packetArr, packetLen)
    /\ pc' = "read"
    /\ UNCHANGED <<stream, input, buffer, packetArr, packetLen, outChan, shortReads>>
    /\ UNCHANGED <<inChan, linkWrites>>
    /\ UNCHANGED hubVars

\* packetComplete returns an error: the candidate frame is logged and shifted out
ScanInvalid ==
    /\ pc = "scan"
    /\ packetComplete(packetArr, packetLen).kind = "Invalid"
    /\ lastScan' = packetComplete(packetArr, packetLen)
    /\ LET rest == discardTo(packetArr, packetLen, packetComplete(packetArr, packetLen).to)
       IN /\ packetArr' = rest.arr
          /\ packetLen' = rest.len
    /\ UNCHANGED <<stream, input, buffer, pc, outChan, shortReads>>
    /\ UNCHANGED <<inChan, linkWrites>>
    /\ UNCHANGED hubVars

\* packetComplete finds a frame: it is decoded, sent on sh.outChan unless the
\* decoding fails, and shifted out
ScanComplete ==
    /\ pc = "scan"
    /\ packetComplete(packetArr, packetLen).kind = "Complete"
    /\ LET r == packetComplete(packetArr, packetLen)
           d == newPacketFromBinary(packetArr, r.from, r.to)
           rest == discardTo(packetArr, packetLen, r.to)
       IN /\ d.res # "panic"
          /\ lastScan' = r
          /\ outChan' = IF d.res = "ok" THEN Append(outChan, d.packet) ELSE outChan
          /\ packetArr' = rest.arr
          /\ packetLen' = rest.len
    /\ UNCHANGED <<stream, input, buffer, pc, shortReads>>
    /\ UNCHANGED <<inChan, linkWrites>>
    /\ UNCHANGED hubVars

\* a slice expression of packetComplete or newPacketFromBinary is out of
\* range: the goroutine panics and the process ends
ScanPanic ==
    /\ pc = "scan"
    /\ LET r == packetComplete(packetArr, packetLen)
       IN /\ \/ r.kind = "Panic"
             \/ /\ r.kind = "Complete"
                /\ newPacketFromBinary(packetArr, r.from, r.to).res = "panic"
          /\ lastScan' = r
    /\ pc' = "panic"
    /\ UNCHANGED <<stream, input, buffer, packetArr, packetLen, outChan, shortReads>>
    /\ UNCHANGED <<inChan, linkWrites>>
    /\ UNCHANGED hubVars

LinkNext ==
    \/ \E n \in 1..maxHIDFrameSize : LinkRead(n)
    \/ LinkReadError
    \/ ScanIncomplete
    \/ ScanInvalid
    \/ ScanComplete
    \/ ScanPanic

(***************************************************************************)
(* The write goroutine of Start ("To Controller").                         *)
(***************************************************************************)
WriteInit ==
    /\ stream = <<>>
    /\ input = <<>>
    /\ buffer = [k \in 1..maxHIDFrameSize |-> 0]
    /\ packetArr = [k \in 1..PacketCap |-> 0]
    /\ packetLen = 0
    /\ pc = "read"
    /\ outChan = <<>>
    /\ lastScan = NoScan
    /\ shortReads = 0
    /\ inChan \in UNION {[1..n -> BuiltPackets] : n \in 1..MaxWrites}
    /\ linkWrites = <<>>

\* packet := <-sh.inChan; binaryPacket, err := packet.toBinary();
\* link.Write(binaryPacket)
LinkWrite ==
    /\ Running
    /\ inChan # <<>>
    /\ linkWrites' = Append(linkWrites, toBinary(Head(inChan)))
    /\ inChan' = Tail(inChan)
    /\ UNCHANGED <<stream, input, buffer, packetArr, packetLen, pc, outChan, lastScan,
                   shortReads>>
    /\ UNCHANGED hubVars

\* link.Write returns an error: log.Fatal
LinkWriteError ==
    /\ Running
    /\ inChan # <<>>
    /\ inChan' = Tail(inChan)
    /\ pc' = "fatal"
    /\ UNCHANGED <<stream, input, buffer, packetArr, packetLen, outChan, lastScan,
                   shortReads, linkWrites>>
    /\ UNCHANGED hubVars

WriteNext ==
    \/ LinkWrite
    \/ LinkWriteError

Init == HubInit /\ LinkIdleInit

WriteStart == HubInit /\ WriteInit

WriteSpec == WriteStart /\ [][WriteNext]_vars

ScanInit == HubInit /\ LinkInit

ScanSpec == ScanInit /\ [][LinkNext]_vars

Next ==
    \/ \E c \in Conns : AddConnection(c)
    \/ \E c \in Conns, k \in Kinds, o \in Objs : Send(c, k, o)
    \/ \E c \in Conns : Close(c)
    \/ \E c \in Conns : Recv(c)
    \/ HubJoin
    \/ \E i \in 2..(NConn + 1) : HubClosed(i)
    \/ \E i \in 2..(NConn + 1) : HubUpdate(i)
    \/ \E i \in 2..(NConn + 1) : HubSubscription(i)
    \/ \E i \in 2..(NConn + 1) : HubDefinition(i)
    \/ \E i \in 2..(NConn + 1) : HubRequest(i)
    \/ HubDeliver

Spec == Init /\ [][Next]_vars

(***************************************************************************)
(* Properties of the dispatch hub.                                         *)
(***************************************************************************)
Registered(c) == c \in Range(connections)
HubDone(k) == hubPend = <<>> /\ cur.kind = k

\* C1: an Update taken from the outbound queue of connection S is never put
\* on S's own inbound queue, also when S is subscribed to its objectID: no
\* inbound queue holds an Update of its own connection, and the hub counts
\* no copy for the sender of the Update it is dispatching.
C1_NoUpdateBackToSender ==
    /\ \A c \in Conns : \A k \in 1..Len(InChan[c]) :
          InChan[c][k].kind = "Update" => InChan[c][k].src # c
    /\ cur.kind = "Update" => sent[cur.from] = 0

\* an Update of a sender subscribed to its own objectID has been dispatched,
\* after a disconnect, and another connection got it
C1_Witness ==
    /\ HubDone("Update")
    /\ Registered(cur.from)
    /\ subscribed(subscriptions[cur.from], cur.msg.obj)
    /\ \E c \in Conns : c # cur.from /\ sent[c] = 1
    /\ Len(connections) < Cardinality({c \in Conns : added[c]})

\* C2: once the hub has dispatched an Update with objectID o of connection
\* S, every registered connection other than S whose subscriptions contain
\* o has got exactly one copy, every other connection none, however many
\* times o is in the subscription list.
C2_UpdateOncePerSubscriber ==
    HubDone("Update") =>
        \A c \in Conns :
            sent[c] = IF /\ Registered(c)
                         /\ c # cur.from
                         /\ cur.msg.obj \in Range(subscriptions[c])
                      THEN 1 ELSE 0

\* a connection that subscribed twice to o got one copy, and a registered
\* connection that did not subscribe got none
C2_Witness ==
    /\ HubDone("Update")
    /\ \E c \in Conns :
          /\ sent[c] = 1
          /\ \E j, k \in 1..Len(subscriptions[c]) :
                j # k /\ subscriptions[c][j] = cur.msg.obj
                      /\ subscriptions[c][k] = cur.msg.obj
    /\ \E d \in Conns : Registered(d) /\ d # cur.from /\ sent[d] = 0

\* the earliest-registered connection whose definitions contain objectID o
HasDefinition(c, o) == o \in Range(connDefinitions[c])
Owners(o) == {k \in 1..Len(connections) : HasDefinition(connections[k], o)}
FirstOwner(o) ==
    connections[CHOOSE k \in Owners(o) : \A j \in Owners(o) : k <= j]

\* C3: once the hub has dispatched a Request for objectID o that some
\* registered connection has in its definitions, exactly one copy is on the
\* inbound queue of the earliest-registered such connection and none
\* elsewhere.
C3_RequestToFirstOwner ==
    (HubDone("Request") /\ Owners(cur.msg.obj) # {}) =>
        \A c \in Conns :
            sent[c] = IF c = FirstOwner(cur.msg.obj) THEN 1 ELSE 0

\* C4: a Request for an objectID that no registered connection has in its
\* definitions is put on no inbound queue.
C4_RequestWithoutOwnerDropped ==
    (cur.kind = "Request" /\ Owners(cur.msg.obj) = {}) =>
        /\ hubPend = <<>>
        /\ sent = Zero

\* C5: once the hub has dispatched a Definition of connection S, every other
\* registered connection has got exactly one copy, whatever its
\* subscriptions, and S none.
C5_DefinitionBroadcast ==
    HubDone("Definition") =>
        \A c \in Conns :
            sent[c] = IF Registered(c) /\ c # cur.from THEN 1 ELSE 0

\* a Definition reached a connection without subscriptions and one with
C5_Witness ==
    /\ HubDone("Definition")
    /\ Registered(cur.from)
    /\ \E c, d \in Conns :
          /\ sent[c] = 1 /\ subscriptions[c] = <<>>
          /\ sent[d] = 1 /\ subscriptions[d] # <<>>

\* C6: after the hub has processed a Definition of connection S, the
\* definition is in S's definitions and in the package-level definitions
\* that newPacketFromBinary consults.
C6_DefinitionRegisteredGlobally ==
    cur.kind = "Definition" =>
        /\ HasDefinition(cur.from, cur.msg.obj)
        /\ cur.msg.obj \in Range(definitions)

(***************************************************************************)
(* Scheduling.  The hub goroutine runs whenever it can: a blocked send     *)
(* goes on as soon as the channel has room, and reflect.Select picks       *)
(* pseudo-randomly among the ready cases, so a case that is ready again    *)
(* and again is eventually picked.                                         *)
(***************************************************************************)
\* the hub loop takes an event of the OutChan of connection c
HubTakes(c) ==
    \E i \in 2..(NConn + 1) :
        /\ i <= Len(cases)
        /\ cases[i] = c
        /\ \/ HubClosed(i)
           \/ HubUpdate(i)
           \/ HubSubscription(i)
           \/ HubDefinition(i)
           \/ HubRequest(i)

HubFairness ==
    /\ WF_vars(HubJoin)
    /\ WF_vars(HubDeliver)
    /\ \A c \in Conns : SF_vars(HubTakes(c))

\* A state the hub reaches from Init: connection 1 has joined, closed its
\* OutChan and been removed, connection 2 has joined and subscribed to
\* object 1, the other connections have not joined yet.
JoinedInit ==
    /\ connections = <<2>>
    /\ cases = <<0, 2>>
    /\ connectionChan = <<>>
    /\ subscriptions = [c \in Conns |-> IF c = 2 THEN <<1>> ELSE <<>>]
    /\ connDefinitions = [c \in Conns |-> <<>>]
    /\ InChan = [c \in Conns |-> <<>>]
    /\ OutChan = [c \in Conns |-> <<>>]
    /\ closed = [c \in Conns |-> c = 1]
    /\ added = [c \in Conns |-> c <= 2]
    /\ definitions = LoadedObjectIDs
    /\ hubPend = <<>>
    /\ cur = [kind |-> "Closed", from |-> 1, msg |-> NoMsg]
    /\ sent = Zero
    /\ budget = MaxMsgs - 1
    /\ chanCap = ChanQueueLength

FairInit == JoinedInit /\ LinkIdleInit

\* the peers that have not closed their connection keep reading InChan;
\* a peer that has closed may never read again
FairSpecOpenPeersRead ==
    /\ FairInit /\ [][Next]_vars
    /\ HubFairness
    /\ \A c \in Conns : WF_vars(~closed[c] /\ Recv(c))

InCases(c) == \E i \in 1..Len(cases) : cases[i] = c

\* C7: once the OutChan of a registered connection is closed, the hub
\* eventually removes the connection from connections and its channel from
\* cases, whatever the peer does after Close.
C7_ClosedEventuallyRemoved ==
    \A c \in Conns :
        (closed[c] /\ Registered(c)) ~> (~Registered(c) /\ ~InCases(c))

\* the hub loop is in a send to the full InChan of a connection whose peer
\* has closed it
BlockedOnClosed ==
    /\ hubPend # <<>>
    /\ closed[Head(hubPend)]
    /\ Len(InChan[Head(hubPend)]) >= chanCap

\* C7 as amended: once the OutChan of a registered connection is closed, the
\* hub eventually removes the connection from connections and its channel
\* from cases, unless the hub loop stays blocked forever in a send to the
\* full InChan of a connection whose peer has closed it and no longer
\* reads; and the hub loop is blocked forever in no other way.
C7_ClosedRemovedUnlessBlockedOnClosed ==
    /\ \A c \in Conns :
          (closed[c] /\ Registered(c)) ~>
              ((~Registered(c) /\ ~InCases(c)) \/ []BlockedOnClosed)
    /\ ([]<>(hubPend = <<>>)) \/ (<>[]BlockedOnClosed)

\* a closed connection has been removed while another one is registered
C7_Witness ==
    /\ cur.kind = "Closed"
    /\ closed[cur.from]
    /\ ~Registered(cur.from)
    /\ ~InCases(cur.from)
    /\ connections # <<>>
    /\ InChan[cur.from] # <<>>
    /\ budget = 0

(***************************************************************************)
(* Properties of the frame scanner and the read loop.                      *)
(***************************************************************************)
HasSync(s) == \E k \in 1..Len(s) : s[k] = syncByte

\* C8: when packetComplete reports Incomplete, the turn of the read loop
\* leaves the bytes of packet as they are and goes back to reading, and a
\* read only appends to packet.
C8_IncompleteLeavesBuffer ==
    [][/\ (pc = "scan" /\ packetComplete(packetArr, packetLen).kind = "Incomplete")
            => (Packet' = Packet /\ pc' = "read")
       /\ (pc = "read" /\ pc' = "scan")
            => /\ packetLen' = packetLen + maxHIDFrameSize
               /\ SubSeq(packetArr', 1, packetLen) = Packet]_vars

\* after an Incomplete scan of a packet that holds the beginning of a frame,
\* a read has appended to it
C8_Witness ==
    /\ pc = "scan"
    /\ lastScan.kind = "Incomplete"
    /\ packetLen > maxHIDFrameSize
    /\ HasSync(SubSeq(packetArr, 1, packetLen - maxHIDFrameSize))

\* C9: every scan that reports Complete or Invalid returns bounds with
\* 0 <= from < to <= len(packet), that turn of the loop leaves exactly the
\* bytes from to on in packet and scans again, and no turn of the inner
\* loop ends otherwise than in Incomplete or in such a shift: the loop
\* ends in Incomplete.
C9_ScanShrinksAndEndsIncomplete ==
    [][pc = "scan" =>
          LET r == packetComplete(packetArr, packetLen)
          IN /\ r.kind \in {"Complete", "Invalid"} =>
                  /\ 0 <= r.from /\ r.from < r.to /\ r.to <= packetLen
                  /\ Packet' = SubSeq(Packet, r.to + 1, packetLen)
                  /\ packetLen' < packetLen
                  /\ pc' = "scan"
             /\ r.kind \notin {"Complete", "Invalid"} => pc' = "read"]_vars

\* C10: when the link delivers one corrupt frame immediately followed by
\* one well-formed frame of a known objectID, in reads that fill the
\* buffer, then once all the bytes are read and scanned the Packet of the
\* well-formed frame has been sent on sh.outChan, and packet holds no more
\* than the bytes of the two frames and one read.
C10_ValidFrameAfterCorruptDelivered ==
    (/\ input \in CorruptThenValidStreams
     /\ shortReads = 0
     /\ stream = <<>>
     /\ pc = "read")
        => /\ \E k \in 1..Len(outChan) :
                 outChan[k] = newPacket(1, objectRequest, 0, <<>>)
           /\ packetLen <= Len(input) + maxHIDFrameSize

\* index (0-based) of the first sync byte of s, -1 without one
FirstSync(s) ==
    IF HasSync(s)
    THEN (CHOOSE k \in 1..Len(s) : s[k] = syncByte /\ \A j \in 1..(k - 1) : s[j] # syncByte) - 1
    ELSE -1

\* C11: when the first sync byte of packet is at index f, the length field
\* at f+2 is in packet and length+1 bytes are there from f on, the scan
\* returns the range [f, f+length+1), Complete exactly when the byte at
\* f+length is the checksum of the bytes [f, f+length) and Invalid
\* otherwise, and the same scan of packet[f:] gives the same verdict.
C11_ScanVerdict ==
    [][(pc = "scan" /\ HasSync(Packet)) =>
          LET f == FirstSync(Packet)
              length == Packet[f + 3] + 256 * Packet[f + 4]
              cks == computeCrc8(0, SubSeq(Packet, f + 1, f + length))
              alone == packetComplete(SubSeq(packetArr, f + 1, Len(packetArr)),
                                      packetLen - f)
          IN (f + 4 <= packetLen /\ length + 1 <= packetLen - f) =>
                /\ lastScan'.from = f
                /\ lastScan'.to = f + length + 1
                /\ lastScan'.kind = IF Packet[f + length + 1] = cks
                                    THEN "Complete" ELSE "Invalid"
                /\ alone = ScanResult(lastScan'.kind, 0, length + 1)]_vars

\* a scan has reported Invalid for a candidate after garbage, and another
\* has reported Complete
C11_Witness ==
    /\ lastScan.kind = "Invalid"
    /\ lastScan.from > 0
    /\ lastScan.to - lastScan.from > shortHeaderLength
    /\ outChan # <<>>

(***************************************************************************)
(* Properties of the encoder.                                              *)
(***************************************************************************)
HasPayload(cmd) == cmd = objectCmd \/ cmd = objectCmdWithAck

\* C12: the length of a Packet built by newPacket is 8, plus 2 when the
\* definition is not single-instance, plus the byte length of the fields
\* for Cmd and CmdWithAck; toBinary gives length+1 bytes: sync, cmd OR
\* version tag, length, objectID, the instanceID only when not
\* single-instance, the payload only for Cmd and CmdWithAck, and the
\* checksum of all these bytes (21 bytes for the single-instance object
\* with 12 bytes of fields).
C12_EncodedLayout ==
    [][linkWrites' # linkWrites =>
          LET p == Head(inChan)
              b == linkWrites'[Len(linkWrites')]
              single == SingleInstance(p.definition)
              h == IF single THEN 8 ELSE 10
          IN /\ p.length = 8 + (IF single THEN 0 ELSE 2)
                            + (IF HasPayload(p.cmd)
                               THEN FieldsByteLength(p.definition) ELSE 0)
             /\ Len(b) = p.length + 1
             /\ b[1] = 60
             /\ b[2] = p.cmd + 32
             /\ b[3] + 256 * b[4] = p.length
             /\ b[5] + 256 * b[6] + 65536 * b[7] + 16777216 * b[8] = p.definition
             /\ ~single => b[9] + 256 * b[10] = p.instanceID
             /\ HasPayload(p.cmd) =>
                    /\ Len(b) = h + FieldsByteLength(p.definition) + 1
                    /\ \A k \in 1..FieldsByteLength(p.definition) :
                           b[h + k] = p.data[k]
             /\ ~HasPayload(p.cmd) => Len(b) = h + 1
             /\ b[Len(b)] = computeCrc8(0, SubSeq(b, 1, Len(b) - 1))
             /\ (single /\ HasPayload(p.cmd) /\ FieldsByteLength(p.definition) = 12)
                    => Len(b) = 21]_vars

\* a Cmd of the single-instance object and a Request of the multi-instance
\* object have been linkWrites
C12_Witness ==
    /\ Len(linkWrites) = 2
    /\ Len(linkWrites[1]) = 21
    /\ linkWrites[2][2] = objectRequest + versionMask
    /\ Len(linkWrites[2]) = 11
    /\ linkWrites[2][9] + 256 * linkWrites[2][10] = 513

\* the fields of a Packet the frame carries for every cmd
SameHeader(q, p) ==
    /\ q.definition = p.definition
    /\ q.cmd = p.cmd
    /\ q.length = p.length
    /\ ~SingleInstance(p.definition) => q.instanceID = p.instanceID

\* C13: for every Packet p built by newPacket over a loaded definition,
\* packetComplete reports the bytes of p.toBinary() Complete with the range
\* [0, len), newPacketFromBinary gives a Packet with the definition, cmd,
\* length and (when not single-instance) instanceID of p, and the read
\* loop, given these bytes in reads that fill the buffer, reports that scan
\* and sends that Packet on sh.outChan.
C13_FrameRoundTrip ==
    [][\A p \in BuiltPackets :
          (/\ Len(input) = p.length + 1
           /\ input[2] = p.cmd + versionMask
           /\ input[5] = p.definition
           /\ input = toBinary(p)) =>
             LET b == input
                 d == newPacketFromBinary(b, 0, Len(b))
             IN /\ packetComplete(b, Len(b)) = ScanResult("Complete", 0, Len(b))
                /\ d.res = "ok"
                /\ SameHeader(d.packet, p)
                /\ (pc = "scan" /\ shortReads = 0 /\ packetLen >= Len(b)
                        /\ outChan = <<>>)
                      => /\ lastScan' = ScanResult("Complete", 0, Len(b))
                         /\ Len(outChan') = 1
                         /\ SameHeader(outChan'[1], p)]_vars

\* the frame of a CmdWithAck for instance 513 of the multi-instance object
\* has been read, scanned and decoded
C13_Witness ==
    /\ input = toBinary(newPacket(3, objectCmdWithAck, 513, <<60>>))
    /\ stream = <<>>
    /\ lastScan.kind = "Incomplete"
    /\ outChan = <<[definition |-> 3, cmd |-> objectCmdWithAck, length |-> 11,
                    instanceID |-> 513, data |-> <<60>>]>>

(***************************************************************************)
(* Errors of the read loop.                                                *)
(***************************************************************************)
\* C14: when the scan finds a checksum-valid frame whose objectID no loaded
\* definition has, that turn of the read loop sends nothing on sh.outChan,
\* leaves in packet exactly the bytes after the frame and scans again; and
\* when such a frame is immediately followed by a well-formed frame of a
\* known object, in reads that fill the buffer, the Packet of the second
\* frame, and nothing else, is on sh.outChan once everything is read.
C14_UnknownObjectIDSkipped ==
    [][/\ pc = "scan" =>
             LET r == packetComplete(packetArr, packetLen)
             IN (/\ r.kind = "Complete"
                 /\ r.to - r.from > shortHeaderLength
                 /\ GetDefinitionForObjectIDErr(definitions,
                        byteArrayToInt32(SubSeq(Packet, r.from + 5, r.from + 8))))
                   => /\ outChan' = outChan
                      /\ Packet' = SubSeq(Packet, r.to + 1, packetLen)
                      /\ pc' = "scan"
       /\ (/\ input = UnknownFrame \o ValidFrame
           /\ shortReads = 0
           /\ stream' = <<>>
           /\ pc' = "read")
             => outChan' = <<newPacket(1, objectRequest, 0, <<>>)>>]_vars

\* the frame of the unknown object has been shifted out and the frame
\* after it delivered
C14_Witness ==
    /\ input = UnknownFrame \o ValidFrame
    /\ shortReads = 0
    /\ stream = <<>>
    /\ pc = "read"
    /\ packetLen < Len(ValidFrame)
    /\ outChan = <<newPacket(1, objectRequest, 0, <<>>)>>

\* The hub, its peers and the link adapter in one process, from the state
\* JoinedInit of the hub, with or without a Packet waiting on sh.inChan;
\* the link fails at any moment.
BridgeInit ==
    /\ JoinedInit
    /\ stream = <<>>
    /\ input = <<>>
    /\ buffer = [k \in 1..maxHIDFrameSize |-> 0]
    /\ packetArr = [k \in 1..PacketCap |-> 0]
    /\ packetLen = 0
    /\ pc = "read"
    /\ outChan = <<>>
    /\ lastScan = NoScan
    /\ shortReads = 0
    /\ inChan \in {<<>>, <<newPacket(1, objectRequest, 0, <<>>)>>}
    /\ linkWrites = <<>>

BridgeNext ==
    \/ Next
    \/ LinkReadError
    \/ LinkWrite
    \/ LinkWriteError

BridgeSpec == BridgeInit /\ [][BridgeNext]_vars

\* processChannels can receive from the OutChan of some registered connection
HubCanReceive ==
    ENABLED (\E i \in 2..(NConn + 1) :
                \/ HubUpdate(i)
                \/ HubSubscription(i)
                \/ HubDefinition(i)
                \/ HubRequest(i))

\* C15: after link.Read or link.Write has returned an error the hub loop
\* still runs: when it is not in the middle of a dispatch and a registered
\* connection has a message on its OutChan, the hub can receive and route
\* it.
C15_HubRunsAfterLinkError ==
    (/\ pc = "fatal"
     /\ hubPend = <<>>
     /\ \E i \in 2..Len(cases) : OutChan[cases[i]] # <<>>)
        => HubCanReceive

(***************************************************************************)
(* Order of the messages of one connection.                                *)
(***************************************************************************)
\* A state the hub reaches from Init: connections 1 and 2 have joined and
\* connection 2 has subscribed to objects 1 and 2; the channels hold up to
\* OrderQueueLength values.
OrderInit ==
    /\ connections = <<1, 2>>
    /\ cases = <<0, 1, 2>>
    /\ connectionChan = <<>>
    /\ subscriptions = [c \in Conns |-> IF c = 2 THEN <<1, 2>> ELSE <<>>]
    /\ connDefinitions = [c \in Conns |-> <<>>]
    /\ InChan = [c \in Conns |-> <<>>]
    /\ OutChan = [c \in Conns |-> <<>>]
    /\ closed = [c \in Conns |-> FALSE]
    /\ added = [c \in Conns |-> c <= 2]
    /\ definitions = LoadedObjectIDs
    /\ hubPend = <<>>
    /\ cur = [kind |-> "Subscription", from |-> 2,
              msg |-> [kind |-> "Subscription", obj |-> 2, src |-> 2]]
    /\ sent = Zero
    /\ budget = MaxMsgs - 1
    /\ chanCap = OrderQueueLength
    /\ LinkIdleInit

OrderSpec == OrderInit /\ [][Next]_vars

\* C16: the OutChan of a connection only grows at its end and only loses
\* its oldest message, which the hub takes when all the sends of the
\* message before it are done; the InChan of a connection only gets, at its
\* end, the message the hub is processing, and only loses its oldest
\* message.  So the hub processes the messages of one connection in the
\* order they were put on its OutChan, and two Updates of one sender reach
\* the InChan of a subscriber in that order.
C16_PerConnectionOrder ==
    [][\A c \in Conns :
          /\ OutChan'[c] # OutChan[c] =>
                \/ /\ Len(OutChan'[c]) = Len(OutChan[c]) + 1
                   /\ SubSeq(OutChan'[c], 1, Len(OutChan[c])) = OutChan[c]
                   /\ OutChan'[c][Len(OutChan'[c])].src = c
                \/ /\ OutChan[c] # <<>>
                   /\ OutChan'[c] = Tail(OutChan[c])
                   /\ hubPend = <<>>
                   /\ cur'.from = c
                   /\ cur'.msg = Head(OutChan[c])
          /\ InChan'[c] # InChan[c] =>
                \/ /\ InChan'[c] = Append(InChan[c], cur.msg)
                   /\ cur' = cur
                   /\ hubPend # <<>> /\ Head(hubPend) = c
                \/ /\ InChan[c] # <<>>
                   /\ InChan'[c] = Tail(InChan[c])]_vars

\* connection 1 has put the Update of object 1 and then the Update of
\* object 2 on its OutChan, and the InChan of the subscriber holds them in
\* that order
C16_Witness ==
    /\ InChan[2] = <<[kind |-> "Update", obj |-> 1, src |-> 1],
                     [kind |-> "Update", obj |-> 2, src |-> 1]>>
    /\ budget = 0

(***************************************************************************)
(* Backpressure.                                                           *)
(***************************************************************************)
\* the hub loop is in a send to a channel that holds cap values
HubBlocked == hubPend # <<>> /\ Len(InChan[Head(hubPend)]) >= chanCap

\* C17: a send the hub has decided on leaves hubPend only by putting the
\* message on the InChan of its target; while that InChan is full the hub
\* takes no join, removes no connection and receives no message; when the
\* target's peer takes one message out, the same send is the next thing
\* the hub does and it can be done; and no InChan or OutChan holds more
\* values than its capacity.
C17_BlockingDelivery ==
    [][/\ hubPend # <<>> =>
             \/ hubPend' = hubPend /\ cur' = cur
             \/ /\ hubPend' = Tail(hubPend)
                /\ cur' = cur
                /\ InChan'[Head(hubPend)] = Append(InChan[Head(hubPend)], cur.msg)
       /\ HubBlocked =>
             /\ hubPend' = hubPend
             /\ connections' = connections
             /\ cases' = cases
             /\ Len(connectionChan') >= Len(connectionChan)
             /\ \A c \in Conns : Len(OutChan'[c]) >= Len(OutChan[c])
             /\ InChan'[Head(hubPend)] # InChan[Head(hubPend)]
                   => /\ InChan'[Head(hubPend)] = Tail(InChan[Head(hubPend)])
                      /\ Len(InChan'[Head(hubPend)]) < chanCap
       /\ (hubPend # <<>> /\ ~HubBlocked) => ENABLED HubDeliver
       /\ \A c \in Conns : /\ Len(InChan'[c]) <= chanCap
                            /\ Len(OutChan'[c]) <= chanCap]_vars

\* the hub is blocked in a send while a join and a message of another
\* connection wait for it
C17_Witness ==
    /\ HubBlocked
    /\ connectionChan # <<>>
    /\ \E i \in 2..Len(cases) : OutChan[cases[i]] # <<>>

(***************************************************************************)
(* The two parallel slices of the Dispatcher.                              *)
(***************************************************************************)
\* s without its k-th element (k from 1)
Without(s, k) == SubSeq(s, 1, k - 1) \o SubSeq(s, k + 1, Len(s))

\* C18: after every step cases has one entry more than connections, entry
\* 0 is connectionChan and entry i+1 is the OutChan of connections[i]; a
\* step that removes a connection removes exactly the connection at the
\* chosen index k and the case at k+1, the others keeping their order, and
\* the removed connection is one whose OutChan is closed; a join appends
\* to both.
C18_CasesFollowConnections ==
    [][/\ Len(cases') = Len(connections') + 1
       /\ cases'[1] = 0
       /\ \A i \in 1..Len(connections') : cases'[i + 1] = connections'[i]
       /\ Len(connections') < Len(connections) =>
             \E k \in 1..Len(connections) :
                /\ connections' = Without(connections, k)
                /\ cases' = Without(cases, k + 1)
                /\ closed[connections[k]]
                /\ OutChan[connections[k]] = <<>>
                /\ cur'.from = connections[k]
       /\ Len(connections') > Len(connections) =>
             /\ SubSeq(connections', 1, Len(connections)) = connections
             /\ SubSeq(cases', 1, Len(cases)) = cases
             /\ Len(connections') = Len(connections) + 1]_vars

\* of three registered connections the middle one has been removed, and
\* then the first of the two that were left
C18_Witness ==
    /\ connections = <<3>>
    /\ cases = <<0, 3>>
    /\ cur.kind = "Closed"
    /\ cur.from = 1
    /\ closed[2]
    /\ ~closed[3]
    /\ budget = MaxMsgs

(***************************************************************************)
(* Frames that arrive in pieces.                                           *)
(***************************************************************************)
\* packet ends with the first n bytes of the frame f, whose sync byte is
\* the first sync byte of packet
EndsWithPrefix(f, n) ==
    /\ n <= packetLen
    /\ FirstSync(Packet) = packetLen - n
    /\ SubSeq(Packet, packetLen - n + 1, packetLen) = SubSeq(f, 1, n)

\* C19: when packet ends with a proper prefix of a well-formed frame, of
\* any length from 1 byte on, whose sync byte is the first sync byte of
\* packet, the scan reports Incomplete and the read loop goes back to
\* reading with packet as it is.
C19_FramePrefixIncomplete ==
    [][(/\ pc = "scan"
        /\ HasSync(Packet)
        /\ \E f \in BuiltFrames : \E n \in 1..(Len(f) - 1) : EndsWithPrefix(f, n))
          => /\ lastScan'.kind = "Incomplete"
             /\ pc' = "read"
             /\ Packet' = Packet]_vars

\* C20: the bytes that cannot be part of a frame do not pile up in packet:
\* when the read loop goes back to reading and packet holds no sync byte,
\* packet holds no more than the bytes of one read.
C20_NoSyncBytesDiscarded ==
    (pc = "read" /\ ~HasSync(Packet)) => packetLen <= maxHIDFrameSize

(***************************************************************************)
(* The cmd of a decoded frame.                                             *)
(***************************************************************************)
\* b with the bit versionMask cleared
WithoutVersionBit(b) ==
    IF (b \div versionMask) % 2 = 1 THEN b - versionMask ELSE b

\* C21: the cmd of a Packet the read loop decodes is the cmd byte of its
\* frame with the bit 0x20 cleared, so it never has that bit set.
C21_DecodedCmdMasked ==
    [][(pc = "scan" /\ Len(outChan') = Len(outChan) + 1) =>
          LET r == packetComplete(packetArr, packetLen)
              cmdByte == Packet[r.from + 2]
              cmd == outChan'[Len(outChan')].cmd
          IN /\ cmd = WithoutVersionBit(cmdByte)
             /\ (cmd \div versionMask) % 2 = 0]_vars

\* C22: a read that returns n bytes appends exactly these n bytes, the
\* next n bytes of the link, to packet.
C22_OnlyReadBytesAppended ==
    [][(pc = "read" /\ pc' = "scan") =>
          LET n == Len(stream) - Len(stream')
          IN /\ packetLen' = packetLen + n
             /\ Packet' = Packet \o SubSeq(stream, 1, n)]_vars

(***************************************************************************)
(* Messages of a connection that closes.                                   *)
(***************************************************************************)
\* the sends processChannels decides on for the message m of connection c
RoutedTo(m, c) ==
    LET from == (CHOOSE k \in 1..Len(connections) : connections[k] = c) - 1
    IN CASE m.kind = "Update" ->
                dispatchUpdate(connections, subscriptions, from, m.obj)
         [] m.kind = "Definition" -> dispatchDefinition(connections, from)
         [] m.kind = "Request" ->
                dispatchRequest(connections, connDefinitions, m.obj)
         [] OTHER -> <<>>

\* C23: a connection is removed only when its OutChan is closed and empty;
\* the OutChan of a closed connection loses messages only one at a time,
\* the oldest first, to the hub, which processes it as a message of its
\* kind from that connection (the sends of its dispatch function, the
\* subscription or the definition recorded for that connection).
C23_ClosedQueueDrainedFirst ==
    [][\A c \in Conns :
          /\ (InCases(c) /\ ~InCases(c)') =>
                /\ closed[c]
                /\ OutChan[c] = <<>>
                /\ cur'.kind = "Closed" /\ cur'.from = c
          /\ (closed[c] /\ OutChan'[c] # OutChan[c]) =>
                LET m == Head(OutChan[c])
                IN /\ OutChan[c] # <<>>
                   /\ OutChan'[c] = Tail(OutChan[c])
                   /\ InCases(c) /\ InCases(c)'
                   /\ cur' = [kind |-> m.kind, from |-> c, msg |-> m]
                   /\ hubPend = <<>>
                   /\ hubPend' = RoutedTo(m, c)
                   /\ m.kind = "Subscription" =>
                         subscriptions'[c] = Append(subscriptions[c], m.obj)
                   /\ m.kind = "Definition" =>
                         connDefinitions'[c] = Append(connDefinitions[c], m.obj)]_vars

\* connection 1 has closed and been removed, and the two Updates it had
\* put on its OutChan are on the InChan of the subscriber, in order
C23_Witness ==
    /\ closed[1]
    /\ connections = <<2>>
    /\ cur.kind = "Closed"
    /\ cur.from = 1
    /\ InChan[2] = <<[kind |-> "Update", obj |-> 2, src |-> 1],
                     [kind |-> "Update", obj |-> 1, src |-> 1]>>

(***************************************************************************)
(* Liveness of the hub when every peer reads.                              *)
(***************************************************************************)
\* every registered connection's peer keeps receiving from its InChan
FairSpecAllPeersRead ==
    /\ FairInit /\ [][Next]_vars
    /\ HubFairness
    /\ \A c \in Conns : WF_vars(InCases(c) /\ Recv(c))

\* C24: when the peers of the registered connections keep reading and
\* Select is fair, a send of the hub that is blocked on a full InChan gets
\* done and the hub always comes back to Select; every connection on
\* connectionChan gets registered; and every message at the head of the
\* OutChan of a registered connection is received by the hub.
C24_HubLiveness ==
    /\ HubBlocked ~> ~HubBlocked
    /\ (hubPend # <<>>) ~> (hubPend = <<>>)
    /\ \A c \in Conns :
          /\ (\E k \in 1..Len(connectionChan) : connectionChan[k] = c)
                ~> InCases(c)
          /\ (InCases(c) /\ OutChan[c] # <<>>) ~> (OutChan[c] = <<>>)

\* the hub is blocked in a send to the full InChan of a connection that
\* has not closed, all messages being sent
C24_Witness ==
    /\ HubBlocked
    /\ ~closed[Head(hubPend)]
    /\ InCases(Head(hubPend))
    /\ budget = 0

TypeOK ==
    /\ Len(cases) = Len(connections) + 1
    /\ \A c \in Conns : Len(InChan[c]) <= chanCap

=============================================================================
